---- MODULE Spec2Model ----
(***************************************************************************)
(* The WebSocket connection provider (WebSocketContext) and the URL-item   *)
(* registry (UrlItemContext) of publications-view, as one state machine.   *)
(*                                                                         *)
(* Every handler of the two providers is one action.  A handler that       *)
(* changes isAuthenticated or isConnected causes a render whose effects    *)
(* (the useEffect bodies) are the action RunEffects; React flushes the     *)
(* effects of a commit before it handles the next event, so the other      *)
(* actions wait for pendingEffect = "none".                                *)
(***************************************************************************)
EXTENDS Integers, Sequences, FiniteSets, TLC

\* ------------------------------------------------------------------ bounds
MaxSockets == 2      \* WebSocket objects alive at once (slots are reused)
MaxTimers == 2       \* reconnect timeouts pending at once (slots are reused)
MaxItems == 2        \* length of urlItems
MaxCaps == 2         \* unsubscribe functions the outside consumer holds at once
MaxBurst == 2     \* message events handled before React renders once

\* --------------------------------------------------------------- constants
ReconnectDelay == 3000
NormalClosure == 1000
UserReason == "User initiated disconnect"

WS_EVENTS ==
  [ CLIENT_CONNECTED |-> "client_connected",
    START_FETCH_A_GOOGLE_SCHOLAR_URL |-> "start_fetch_a_google_scholar_url",
    STOP_FETCH_A_GOOGLE_SCHOLAR_URL |-> "stop_fetch_a_google_scholar_url",
    UPDATE_FETCH_A_GOOGLE_SCHOLAR_URL_PROCESS |-> "update_fetch_a_google_scholar_url_process",
    FAILED_FETCH_A_GOOGLE_SCHOLAR_URL |-> "failed_fetch_a_google_scholar_url",
    FETCHED_COMPLETED_WITH_PAPERS_INFO |-> "fetched_completed_with_papers_info" ]

\* The event names inbound frames carry.
InboundEvents ==
  { WS_EVENTS.CLIENT_CONNECTED,
    WS_EVENTS.UPDATE_FETCH_A_GOOGLE_SCHOLAR_URL_PROCESS,
    WS_EVENTS.FAILED_FETCH_A_GOOGLE_SCHOLAR_URL,
    WS_EVENTS.FETCHED_COMPLETED_WITH_PAPERS_INFO }

\* ------------------------------------------------------------ small domains
SocketIds == 1..MaxSockets
TimerIds == 1..MaxTimers
Null == "null"                       \* JavaScript null for a string | null
ClientIds == {"a", "b"}              \* identities the remote side assigns
JobIds == {"j1", "j2"}               \* searchId values
Urls == {"u1"}
\* An optional field of a payload: <<>> is absent (undefined or null), <<v>> is v.
None == <<>>
Some(v) == <<v>>

\* The callbacks of UrlItemProvider and one subscriber outside the providers.
UpdateCb == "updateFetchAGoogleScholarUrlProcess"
CompletedCb == "fetchedCompletedWithPapersInfo"
ExternalCb == "externalCallback"
\* Two more subscribers outside the providers: one that, when invoked, calls
\* the unsubscribe functions its consumer holds for ExternalCb and for itself
\* under the event, and one that throws.
StopperCb == "stopperCallback"
ThrowingCb == "throwingCallback"
ExternalCallbacks == {ExternalCb, StopperCb, ThrowingCb}
Callbacks == {UpdateCb, CompletedCb} \cup ExternalCallbacks
CapIds == 1..MaxCaps

VARIABLES
  endpointThrows,       \* the endpoint prop is one new WebSocket(endpoint) throws on
  isAuthenticated,      \* the prop both providers receive
  isConnected,          \* useState(false)
  clientId,             \* useState<string | null>(null)
  sockets,              \* the WebSocket objects: readyState, closure, close() arguments
  socketRef,            \* socketRef.current: a socket id, 0 for null
  timers,               \* the setTimeout(connect, 3000) timeouts
  reconnectTimeoutRef,  \* reconnectTimeoutRef.current: a timer id, 0 for null
  eventListeners,       \* eventListenersRef.current: event -> callbacks in insertion order
  urlItems,             \* useState<URLItem[]>([])
  error,                \* useState<string | null>(null) of UrlItemProvider
  pendingEffect,        \* "none", which dependency of the effects the last render changed,
                        \* or "crashed": a state updater threw while React rendered
  userDisconnected,     \* disconnect() ran and connect() was not called since (history)
  lastOp,               \* the handler that ran last and what it did (history)
  delivered,            \* the callbacks the last inbound frame was dispatched to (history)
  written,              \* the envelope the last sendMessage wrote, if any (history)
  receivedId,           \* data.search_id of the frame the last step received, if any (history)
  removed,              \* how many items the last removeUrlItem took out of urlItems (history)
  capabilities          \* the functions subscribeToEvent returned to the outside consumer

vars ==
  << endpointThrows, isAuthenticated, isConnected, clientId, sockets, socketRef, timers,
     reconnectTimeoutRef, eventListeners, urlItems, error, pendingEffect,
     userDisconnected, lastOp, delivered, written, receivedId, removed,
     capabilities >>

\* ------------------------------------------------------- connection record
\* The mutable state connect(), disconnect() and the socket handlers touch,
\* as one record the operators below transform.  ok = FALSE marks a run that
\* needs more sockets or timers than the bounds hold; such steps are cut.
NoSocket == [readyState |-> "NONE", auth |-> FALSE, closeCode |-> 0, closeReason |-> ""]
NoTimer == [pending |-> FALSE, auth |-> FALSE, delay |-> 0]

CS ==
  [ sockets |-> sockets, socketRef |-> socketRef, timers |-> timers,
    reconnectTimeoutRef |-> reconnectTimeoutRef, isConnected |-> isConnected,
    clientId |-> clientId, ok |-> TRUE ]

Min(S) == CHOOSE x \in S : \A y \in S : x <= y

FreeSockets(cs) == {s \in SocketIds : cs.sockets[s].readyState \in {"NONE", "CLOSED"}}
FreeTimers(cs) == {t \in TimerIds : ~cs.timers[t].pending}

\* clearTimeout(id): the timeout no longer fires; the ref is left as it is.
clearTimeout(cs, id) ==
  IF id = 0 THEN cs
  ELSE [cs EXCEPT !.timers[id] = NoTimer]

\* reconnectTimeoutRef.current = setTimeout(connect, 3000), connect being the
\* closure whose isAuthenticated is auth.
setTimeoutConnect(cs, auth) ==
  IF FreeTimers(cs) = {} THEN [cs EXCEPT !.ok = FALSE]
  ELSE LET t == Min(FreeTimers(cs))
       IN [cs EXCEPT !.timers[t] = [pending |-> TRUE, auth |-> auth, delay |-> ReconnectDelay],
                     !.reconnectTimeoutRef = t]

\* const socket = new WebSocket(endpoint); socketRef.current = socket; the
\* four listeners close over the isAuthenticated of this connect.
newWebSocket(cs, auth) ==
  IF FreeSockets(cs) = {} THEN [cs EXCEPT !.ok = FALSE]
  ELSE LET s == Min(FreeSockets(cs))
       IN [cs EXCEPT !.sockets[s] = [readyState |-> "CONNECTING", auth |-> auth,
                                     closeCode |-> 0, closeReason |-> ""],
                     !.socketRef = s]

SocketIsOpen(cs) ==
  cs.socketRef # 0 /\ cs.sockets[cs.socketRef].readyState = "OPEN"

\* connect() of the render whose isAuthenticated is auth; throws: the
\* WebSocket constructor throws (the catch branch).
connect(cs, auth, throws) ==
  IF SocketIsOpen(cs) THEN cs
  ELSE LET c1 == clearTimeout(cs, cs.reconnectTimeoutRef)
       IN IF ~throws THEN newWebSocket(c1, auth)
          ELSE LET c2 == [c1 EXCEPT !.isConnected = FALSE, !.clientId = Null]
               IN IF auth THEN setTimeoutConnect(c2, auth) ELSE c2

disconnect(cs) ==
  LET c1 == IF cs.reconnectTimeoutRef # 0
              THEN [clearTimeout(cs, cs.reconnectTimeoutRef) EXCEPT !.reconnectTimeoutRef = 0]
              ELSE cs
  IN IF SocketIsOpen(c1)
       THEN [c1 EXCEPT !.sockets[c1.socketRef].readyState = "CLOSING",
                       !.sockets[c1.socketRef].closeCode = NormalClosure,
                       !.sockets[c1.socketRef].closeReason = UserReason,
                       !.socketRef = 0,
                       !.isConnected = FALSE,
                       !.clientId = Null]
       ELSE c1

\* socket.addEventListener("open", ...)
onOpen(cs, s) ==
  [cs EXCEPT !.sockets[s].readyState = "OPEN", !.isConnected = TRUE]

\* socket.addEventListener("error", ...)
onError(cs, s) ==
  [cs EXCEPT !.isConnected = FALSE, !.clientId = Null]

\* onClose taking every close of code 1000 for the caller's, whatever its reason.
onCloseCodeOnly(cs, s, code, reason) ==
  LET c1 == [cs EXCEPT !.sockets[s].readyState = "CLOSED",
                       !.isConnected = FALSE, !.clientId = Null]
      isUserInitiated == code = NormalClosure
  IN IF ~isUserInitiated /\ cs.sockets[s].auth
       THEN setTimeoutConnect(c1, cs.sockets[s].auth)
       ELSE c1

\* socket.addEventListener("close", ...) of socket s, the event carrying code and reason
onClose(cs, s, code, reason) ==
  LET c1 == [cs EXCEPT !.sockets[s].readyState = "CLOSED",
                       !.isConnected = FALSE, !.clientId = Null]
      isUserInitiated == code = NormalClosure /\ reason = UserReason
  IN IF ~isUserInitiated /\ cs.sockets[s].auth
       THEN setTimeoutConnect(c1, cs.sockets[s].auth)
       ELSE c1

\* A closed socket nothing refers to is gone; its slot is free again.
Collect(cs) ==
  [cs EXCEPT !.sockets =
     [s \in SocketIds |->
        IF cs.sockets[s].readyState = "CLOSED" /\ cs.socketRef # s
          THEN NoSocket ELSE cs.sockets[s]]]

\* The step ends in connection state n, the render included.
SetCS(n) ==
  /\ n.ok
  /\ sockets' = Collect(n).sockets
  /\ socketRef' = n.socketRef
  /\ timers' = n.timers
  /\ reconnectTimeoutRef' = n.reconnectTimeoutRef
  /\ isConnected' = n.isConnected
  /\ clientId' = n.clientId

\* The effects run again when a dependency changed ([isAuthenticated, isConnected, ...]).
Rerender(n) ==
  pendingEffect' = IF n.isConnected # isConnected THEN "conn" ELSE "none"

Op(name, called, sock, result) ==
  [name |-> name, called |-> called, sock |-> sock, result |-> result]


\* ------------------------------------------------------------- event bus
\* listeners.add(callback): a Set keeps one entry per callback, in insertion order.
subscribeToEvent(ls, event, callback) ==
  IF \E i \in 1..Len(ls[event]) : ls[event][i] = callback
    THEN ls
    ELSE [ls EXCEPT ![event] = Append(@, callback)]

\* unsubscribe deleting from a copy of the set, so the registry keeps the
\* callback.
unsubscribeStale(ls, event, callback) == ls

\* The function subscribeToEvent returns: listeners.delete(callback); an
\* event whose set became empty is an empty sequence here.
unsubscribe(ls, event, callback) ==
  [ls EXCEPT ![event] = SelectSeq(@, LAMBDA c : c # callback)]

\* ----------------------------------------------------------- job registry
EmptyData ==
  [ search_id |-> None, client_id |-> None, url |-> None, status |-> None,
    progress |-> None, fetched_paper_count |-> None, total_paper_count |-> None,
    papers |-> None, error_message |-> None ]

\* const newUrlItem: URLItem = {...} of fetchUrlItem (start_time and
\* thread_id carry no behaviour and are left out; author_name is url).
newUrlItem(url, searchId, cid) ==
  [ search_id |-> Some(searchId),
    client_id |-> Some(IF cid = Null THEN "" ELSE cid),
    url |-> Some(url),
    status |-> Some("collecting_info"),
    progress |-> Some(0),
    fetched_paper_count |-> None,
    total_paper_count |-> None,
    papers |-> Some(<< >>),
    error_message |-> Some("") ]

\* replaceMatching adding the payload as a new item when no item matches it.
replaceOrInsert(items, data) ==
  IF \E i \in 1..Len(items) : items[i].search_id = data.search_id
    THEN [i \in 1..Len(items) |->
            IF items[i].search_id = data.search_id THEN data ELSE items[i]]
    ELSE Append(items, data)

\* replaceMatching taking a job out of the list once its payload reports
\* the status completed.
replaceDroppingCompleted(items, data) ==
  SelectSeq([i \in 1..Len(items) |->
               IF items[i].search_id = data.search_id THEN data ELSE items[i]],
            LAMBDA item : ~(item.search_id = data.search_id
                              /\ item.status = Some("completed")))

\* replaceMatching moving the patched job to the end of the list.
replaceMovingToEnd(items, data) ==
  IF \E i \in 1..Len(items) : items[i].search_id = data.search_id
    THEN Append(SelectSeq(items, LAMBDA item : item.search_id # data.search_id),
                data)
    ELSE items

\* prev.map((item) => item.search_id === data.search_id ? data : item),
\* the body of both updateFetchAGoogleScholarUrlProcess and
\* fetchedCompletedWithPapersInfo.
replaceMatching(items, data) ==
  [i \in 1..Len(items) |->
     IF items[i].search_id = data.search_id THEN data ELSE items[i]]

updateFetchAGoogleScholarUrlProcess(items, data) == replaceMatching(items, data)
fetchedCompletedWithPapersInfo(items, data) == replaceMatching(items, data)

\* removeUrlItem keeping the item while no open socket could carry a notice.
removeUrlItemWhenOpen(items, searchId) ==
  IF SocketIsOpen(CS)
    THEN SelectSeq(items, LAMBDA item : item.search_id # Some(searchId))
    ELSE items

\* prev.filter((item) => item.search_id !== searchId) of removeUrlItem
removeUrlItem(items, searchId) ==
  SelectSeq(items, LAMBDA item : item.search_id # Some(searchId))

\* The unsubscribe functions the outside consumer holds: state is "none" (an
\* empty slot), "live" (not called yet) or "called".
NoCap == [event |-> "", callback |-> "", state |-> "none"]

\* StopperCb calls the live unsubscribe functions for ExternalCb and for
\* itself under the event.
stopCaps(caps, event) ==
  [c \in CapIds |->
     IF caps[c].state = "live" /\ caps[c].event = event
          /\ caps[c].callback \in {ExternalCb, StopperCb}
       THEN [caps[c] EXCEPT !.state = "called"]
       ELSE caps[c]]

\* A dispatch in progress: urlItems, the listeners and the unsubscribe
\* functions as the callbacks invoked so far left them, those callbacks in
\* order, and whether a state update was queued whose updater throws when
\* React renders (data.search_id of an undefined data).
Dispatch(items, ls, caps) ==
  [items |-> items, ls |-> ls, caps |-> caps, invoked |-> << >>, renderThrows |-> FALSE]

\* callback(message.data) for one callback.
invoke(callback, st, frame) ==
  LET st1 == [st EXCEPT !.invoked = Append(@, callback)]
  IN IF callback \in {UpdateCb, CompletedCb}
       THEN IF frame.hasData
              THEN [st1 EXCEPT !.items =
                      IF callback = UpdateCb
                        THEN updateFetchAGoogleScholarUrlProcess(@, frame.data)
                        ELSE fetchedCompletedWithPapersInfo(@, frame.data)]
              ELSE [st1 EXCEPT !.renderThrows = @ \/ st.items # << >>]
     ELSE IF callback = StopperCb
       THEN [st1 EXCEPT !.ls = unsubscribe(unsubscribe(@, frame.event, ExternalCb),
                                           frame.event, StopperCb),
                        !.caps = stopCaps(@, frame.event)]
     ELSE st1

\* afterCallback without the try and catch around the call of a callback.
afterCallbackUncaught(callback, rest) ==
  IF callback = ThrowingCb THEN << >> ELSE rest

\* try { callback(message.data) } catch (error) { console.error(...) }: the
\* callbacks still to visit once callback returned or threw.
afterCallback(callback, rest) == rest

\* eventListenersRef.current.get(message.event)?.forEach(...): Set.forEach
\* visits the entries in insertion order and skips one deleted before its turn.
RECURSIVE forEach(_, _, _)
forEach(cbs, st, frame) ==
  IF cbs = << >> THEN st
  ELSE LET st1 == invoke(Head(cbs), st, frame)
           rest == SelectSeq(Tail(cbs),
                             LAMBDA c : \E i \in 1..Len(st1.ls[frame.event]) :
                                          st1.ls[frame.event][i] = c)
       IN forEach(afterCallback(Head(cbs), rest), st1, frame)

\* ------------------------------------------------------------ inbound frames
\* ok: JSON.parse succeeds and yields an envelope {event, data}.
ProgressPatch(j) ==
  [EmptyData EXCEPT !.search_id = Some(j), !.status = Some("searching_papers"),
                    !.progress = Some(60)]
CompletedPatch(j) ==
  [EmptyData EXCEPT !.search_id = Some(j), !.client_id = Some("a"), !.url = Some("u1"),
                    !.status = Some("completed"), !.progress = Some(100),
                    !.fetched_paper_count = Some(1), !.total_paper_count = Some(1),
                    !.papers = Some(<<"Paper A">>), !.error_message = Some("")]

HandshakeFrames ==
  { [ok |-> TRUE, hasData |-> TRUE, event |-> WS_EVENTS.CLIENT_CONNECTED,
     data |-> [EmptyData EXCEPT !.client_id = c]] :
       c \in {Some(x) : x \in ClientIds \cup {""}} \cup {None} }

JobFrames ==
  { [ok |-> TRUE, hasData |-> TRUE, event |-> WS_EVENTS.UPDATE_FETCH_A_GOOGLE_SCHOLAR_URL_PROCESS,
     data |-> ProgressPatch(j)] : j \in JobIds }
  \cup
  { [ok |-> TRUE, hasData |-> TRUE, event |-> WS_EVENTS.FETCHED_COMPLETED_WITH_PAPERS_INFO,
     data |-> CompletedPatch(j)] : j \in JobIds }

MalformedFrames == { [ok |-> FALSE, hasData |-> FALSE, event |-> "", data |-> EmptyData] }

\* Frames JSON.parse accepts that lack a member of the envelope: no event,
\* or an event and no data (message.data is undefined).
IncompleteFrames ==
  { [ok |-> TRUE, hasData |-> TRUE, event |-> "", data |-> EmptyData] }
  \cup
  { [ok |-> TRUE, hasData |-> FALSE, event |-> e, data |-> EmptyData] :
      e \in {WS_EVENTS.CLIENT_CONNECTED,
             WS_EVENTS.UPDATE_FETCH_A_GOOGLE_SCHOLAR_URL_PROCESS} }

\* Further payloads of the job events: data is Record<string, unknown>, so a
\* payload carries whatever fields the remote side put in it.
\* A completed payload with the final papers and no progress field.
CompletedNoProgress(j) ==
  [EmptyData EXCEPT !.search_id = Some(j), !.status = Some("completed"),
                    !.papers = Some(<<"Paper A">>)]
\* A progress update reporting status error and carrying no error_message.
ErrorPatch(j) ==
  [EmptyData EXCEPT !.search_id = Some(j), !.status = Some("error")]
\* A progress update reporting status completed at progress 60.
CompletedStatusPatch(j) ==
  [EmptyData EXCEPT !.search_id = Some(j), !.status = Some("completed"),
                    !.progress = Some(60)]
\* The payload of failed_fetch_a_google_scholar_url.
FailedPatch(j) ==
  [EmptyData EXCEPT !.search_id = Some(j), !.status = Some("error"),
                    !.error_message = Some("scholar page not found")]

PatchFrames ==
  { [ok |-> TRUE, hasData |-> TRUE, event |-> WS_EVENTS.UPDATE_FETCH_A_GOOGLE_SCHOLAR_URL_PROCESS,
     data |-> d] : d \in {ProgressPatch(j) : j \in JobIds}
                          \cup {ErrorPatch(j) : j \in JobIds}
                          \cup {CompletedStatusPatch(j) : j \in JobIds} }
  \cup
  { [ok |-> TRUE, hasData |-> TRUE, event |-> WS_EVENTS.FETCHED_COMPLETED_WITH_PAPERS_INFO,
     data |-> d] : d \in {CompletedPatch(j) : j \in JobIds}
                          \cup {CompletedNoProgress(j) : j \in JobIds} }
  \cup
  { [ok |-> TRUE, hasData |-> TRUE, event |-> WS_EVENTS.FAILED_FETCH_A_GOOGLE_SCHOLAR_URL,
     data |-> FailedPatch(j)] : j \in JobIds }

\* A JavaScript truthy string: present and not empty.
Truthy(opt) == opt # None /\ opt[1] # ""

\* message.event === WS_EVENTS.CLIENT_CONNECTED && message.data.client_id
IsHandshake(frame) ==
  /\ frame.ok
  /\ frame.event = WS_EVENTS.CLIENT_CONNECTED
  /\ frame.hasData
  /\ Truthy(frame.data.client_id)

\* The frames the outer catch of the message listener ends the handling of:
\* JSON.parse throws, or message.data.client_id is read off an undefined data.
Dropped(frame) ==
  ~frame.ok \/ (frame.event = WS_EVENTS.CLIENT_CONNECTED /\ ~frame.hasData)

\* dispatched forwarding frames only once the provider holds a client id.
dispatchedWhenIdentified(ls, frame) ==
  IF Dropped(frame) \/ IsHandshake(frame) \/ clientId = Null THEN << >>
  ELSE IF frame.event \in DOMAIN ls THEN ls[frame.event] ELSE << >>

\* dispatched without the return that ends the handling of the handshake.
dispatchedAfterHandshake(ls, frame) ==
  IF Dropped(frame) THEN << >>
  ELSE IF frame.event \in DOMAIN ls THEN ls[frame.event] ELSE << >>

\* The callbacks the message listener finds registered for a frame, in order.
dispatched(ls, frame) ==
  IF Dropped(frame) \/ IsHandshake(frame) THEN << >>
  ELSE IF frame.event \in DOMAIN ls THEN ls[frame.event] ELSE << >>

\* socket.addEventListener("message", ...): the client id it sets
onMessageClientId(cid, frame) ==
  IF IsHandshake(frame) THEN frame.data.client_id[1] ELSE cid

\* ---------------------------------------------------------------- sending
\* sendMessage throws unless socketRef.current is an open socket.
sendMessageThrows(cs) == ~SocketIsOpen(cs)

Envelope(event, data) == [event |-> event, data |-> data]
NoEnvelope == Envelope("", EmptyData)


\* ------------------------------------------------------------------- Init
Init ==
  /\ endpointThrows \in BOOLEAN
  /\ isAuthenticated = FALSE
  /\ isConnected = FALSE
  /\ clientId = Null
  /\ sockets = [s \in SocketIds |-> NoSocket]
  /\ socketRef = 0
  /\ timers = [t \in TimerIds |-> NoTimer]
  /\ reconnectTimeoutRef = 0
  /\ eventListeners = [e \in InboundEvents |-> << >>]
  /\ urlItems = << >>
  /\ error = Null
  /\ pendingEffect = "none"
  /\ userDisconnected = FALSE
  /\ lastOp = Op("mount", "none", 0, "none")
  /\ delivered = << >>
  /\ written = NoEnvelope
  /\ receivedId = None
  /\ removed = 0
  /\ capabilities = [c \in CapIds |-> NoCap]

ConnVars == <<sockets, socketRef, timers, reconnectTimeoutRef, isConnected, clientId>>

\* What a call of connect() does, for the history.
ConnectResult(cs, throws) ==
  IF SocketIsOpen(cs) THEN "noop" ELSE IF throws THEN "threw" ELSE "opened"

\* ---------------------------------------------------------------- actions
\* The authentication collaborator flips the prop of both providers.
SetAuth ==
  /\ pendingEffect = "none"
  /\ isAuthenticated' = ~isAuthenticated
  /\ pendingEffect' = "auth"
  /\ lastOp' = Op("setAuth", "none", 0, "none")
  /\ delivered' = << >>
  /\ receivedId' = None
  /\ removed' = 0
  /\ capabilities' = capabilities
  /\ written' = NoEnvelope
  /\ UNCHANGED <<endpointThrows, userDisconnected, ConnVars, eventListeners, urlItems, error>>

\* The effects of the commit, children first: UrlItemProvider's cleanup of
\* its subscriptions, its reset effect and its subscription effect (their
\* dependency is isAuthenticated), then WebSocketProvider's effect.
RunEffects ==
  /\ pendingEffect \in {"auth", "conn"}
  /\ LET throws == endpointThrows
         authChanged == pendingEffect = "auth"
         ls1 == IF authChanged /\ ~isAuthenticated
                  THEN unsubscribe(
                         unsubscribe(eventListeners,
                                     WS_EVENTS.UPDATE_FETCH_A_GOOGLE_SCHOLAR_URL_PROCESS,
                                     UpdateCb),
                         WS_EVENTS.FETCHED_COMPLETED_WITH_PAPERS_INFO, CompletedCb)
                  ELSE eventListeners
         ls2 == IF authChanged /\ isAuthenticated
                  THEN subscribeToEvent(
                         subscribeToEvent(ls1,
                                          WS_EVENTS.UPDATE_FETCH_A_GOOGLE_SCHOLAR_URL_PROCESS,
                                          UpdateCb),
                         WS_EVENTS.FETCHED_COMPLETED_WITH_PAPERS_INFO, CompletedCb)
                  ELSE ls1
         reset == authChanged /\ ~isAuthenticated
         called == IF isAuthenticated /\ ~isConnected THEN "connect"
                   ELSE IF ~isAuthenticated /\ isConnected THEN "disconnect"
                   ELSE "none"
         n == IF called = "connect" THEN connect(CS, isAuthenticated, throws)
              ELSE IF called = "disconnect" THEN disconnect(CS)
              ELSE CS
         result == IF called = "connect" THEN ConnectResult(CS, throws) ELSE "none"
     IN /\ SetCS(n)
        /\ Rerender(n)
        /\ eventListeners' = ls2
        /\ urlItems' = IF reset THEN << >> ELSE urlItems
        /\ error' = IF reset THEN Null ELSE error
        /\ userDisconnected' = IF called = "disconnect" THEN TRUE
                               ELSE IF called = "connect" THEN FALSE
                               ELSE userDisconnected
        /\ lastOp' = Op("effect", called, 0, result)
  /\ delivered' = << >>
  /\ receivedId' = None
  /\ removed' = 0
  /\ capabilities' = capabilities
  /\ written' = NoEnvelope
  /\ UNCHANGED <<endpointThrows, isAuthenticated>>

\* A reconnect timeout fires and runs the connect it was given.
TimerFire(t) ==
  /\ pendingEffect = "none"
  /\ timers[t].pending
  /\ LET c0 == [CS EXCEPT !.timers[t] = NoTimer]
         n == connect(c0, timers[t].auth, endpointThrows)
     IN /\ SetCS(n)
        /\ Rerender(n)
        /\ lastOp' = Op("timer", "connect", 0, ConnectResult(c0, endpointThrows))
  /\ delivered' = << >>
  /\ receivedId' = None
  /\ removed' = 0
  /\ capabilities' = capabilities
  /\ written' = NoEnvelope
  /\ UNCHANGED <<endpointThrows, userDisconnected, isAuthenticated, eventListeners, urlItems, error>>

\* The transport of socket s is established: its open event.
SocketOpen(s) ==
  /\ pendingEffect = "none"
  /\ sockets[s].readyState = "CONNECTING"
  /\ LET n == onOpen(CS, s)
     IN SetCS(n) /\ Rerender(n)
  /\ lastOp' = Op("open", "none", s, "none")
  /\ delivered' = << >>
  /\ receivedId' = None
  /\ removed' = 0
  /\ capabilities' = capabilities
  /\ written' = NoEnvelope
  /\ UNCHANGED <<endpointThrows, userDisconnected, isAuthenticated, eventListeners, urlItems, error>>

\* The connection of socket s fails (refused, dropped, closing handshake
\* lost): the browser fires error and then close with code 1006.
SocketFail(s) ==
  /\ pendingEffect = "none"
  /\ sockets[s].readyState \in {"CONNECTING", "OPEN", "CLOSING"}
  /\ LET n == onClose(onError(CS, s), s, 1006, "")
     IN SetCS(n) /\ Rerender(n)
  /\ lastOp' = Op("error", "none", s, "other")
  /\ delivered' = << >>
  /\ receivedId' = None
  /\ removed' = 0
  /\ capabilities' = capabilities
  /\ written' = NoEnvelope
  /\ UNCHANGED <<endpointThrows, userDisconnected, isAuthenticated, eventListeners, urlItems, error>>

\* Close frames the remote side sends of its own accord.
RemoteCloses == { [code |-> 1000, reason |-> ""], [code |-> 1001, reason |-> "Going away"] }

\* The remote side closes the open socket s: its close event.
SocketRemoteClose(s) ==
  /\ pendingEffect = "none"
  /\ sockets[s].readyState = "OPEN"
  /\ \E ce \in RemoteCloses :
       LET n == onClose(CS, s, ce.code, ce.reason)
       IN SetCS(n) /\ Rerender(n)
  /\ lastOp' = Op("close", "none", s, "other")
  /\ delivered' = << >>
  /\ receivedId' = None
  /\ removed' = 0
  /\ capabilities' = capabilities
  /\ written' = NoEnvelope
  /\ UNCHANGED <<endpointThrows, userDisconnected, isAuthenticated, eventListeners, urlItems, error>>

\* The remote side answers socket.close(code, reason): the close event
\* carries the code and reason close() was given.
SocketCloseAck(s) ==
  /\ pendingEffect = "none"
  /\ sockets[s].readyState = "CLOSING"
  /\ LET n == onClose(CS, s, sockets[s].closeCode, sockets[s].closeReason)
     IN SetCS(n) /\ Rerender(n)
  /\ lastOp' = Op("close", "none", s, "user")
  /\ delivered' = << >>
  /\ receivedId' = None
  /\ removed' = 0
  /\ capabilities' = capabilities
  /\ written' = NoEnvelope
  /\ UNCHANGED <<endpointThrows, userDisconnected, isAuthenticated, eventListeners, urlItems, error>>

\* A frame arrives on the open socket s: its message event.
Receive(s, frame) ==
  /\ pendingEffect = "none"
  /\ sockets[s].readyState = "OPEN"
  /\ lastOp' = Op("message", "none", s,
                  IF Dropped(frame) THEN "dropped"
                  ELSE IF IsHandshake(frame) THEN "handshake" ELSE frame.event)
  /\ receivedId' = frame.data.search_id
  /\ clientId' = onMessageClientId(clientId, frame)
  /\ \E st \in {forEach(dispatched(eventListeners, frame),
                         Dispatch(urlItems, eventListeners, capabilities), frame)} :
        /\ delivered' = st.invoked
        /\ urlItems' = st.items
        /\ eventListeners' = st.ls
        /\ capabilities' = st.caps
        /\ pendingEffect' = IF st.renderThrows THEN "crashed" ELSE pendingEffect
  /\ removed' = 0
  /\ written' = NoEnvelope
  /\ UNCHANGED <<endpointThrows, userDisconnected, isAuthenticated, isConnected, sockets, socketRef, timers,
                 reconnectTimeoutRef, error>>

\* The frames the remote side sends: the handshake (well formed or not),
\* and the job events.
SocketHandshake(s) == \E frame \in HandshakeFrames \cup MalformedFrames : Receive(s, frame)
SocketJobEvent(s) == \E frame \in JobFrames : Receive(s, frame)
SocketJobPatch(s) == \E frame \in PatchFrames : Receive(s, frame)
SocketIncomplete(s) == \E frame \in MalformedFrames \cup IncompleteFrames : Receive(s, frame)

\* handleFrames with every updater computed from the urlItems of the last
\* render (a setUrlItems(urlItems.map(...)) of a stale closure): what the
\* last frame queued wins over the list as it was.
handleFramesStale(frames, st) ==
  IF frames = << >> THEN st
  ELSE LET last == frames[Len(frames)]
       IN forEach(dispatched(st.ls, last), st, last)

\* Several message events handled one after the other before React renders:
\* each callback queues setUrlItems(prev => ...), and React applies the
\* queued updaters in the order they were queued, each to the result of the
\* one before.
RECURSIVE handleFrames(_, _)
handleFrames(frames, st) ==
  IF frames = << >> THEN st
  ELSE handleFrames(Tail(frames),
                    forEach(dispatched(st.ls, Head(frames)), st, Head(frames)))

\* The runs of job frames one socket delivers before React renders.
Bursts == UNION {[1..n -> JobFrames] : n \in 2..MaxBurst}

\* The message listener of socket s handles the frames of a burst in the
\* order they arrived, and React renders once after the last.
ReceiveBurst(s, frames) ==
  /\ pendingEffect = "none"
  /\ sockets[s].readyState = "OPEN"
  /\ lastOp' = Op("messages", "none", s, frames[Len(frames)].event)
  /\ receivedId' = frames[Len(frames)].data.search_id
  /\ \E st \in {handleFrames(frames, Dispatch(urlItems, eventListeners, capabilities))} :
        /\ delivered' = st.invoked
        /\ urlItems' = st.items
        /\ eventListeners' = st.ls
        /\ capabilities' = st.caps
        /\ pendingEffect' = IF st.renderThrows THEN "crashed" ELSE pendingEffect
  /\ removed' = 0
  /\ written' = NoEnvelope
  /\ UNCHANGED <<endpointThrows, userDisconnected, isAuthenticated, isConnected, clientId,
                 sockets, socketRef, timers, reconnectTimeoutRef, error>>

SocketBurst(s) == \E frames \in Bursts : ReceiveBurst(s, frames)

\* fetchUrlItem(url, searchId) of the render in force.
FetchUrlItem(url, searchId) ==
  /\ pendingEffect = "none"
  /\ IF ~isAuthenticated
       THEN /\ urlItems' = << >>
            /\ error' = error
            /\ written' = NoEnvelope
            /\ lastOp' = Op("fetchUrlItem", "none", 0, "unauthenticated")
       ELSE IF sendMessageThrows(CS)
         THEN /\ urlItems' = urlItems
              /\ error' = "Failed to load inbox items"
              /\ written' = NoEnvelope
              /\ lastOp' = Op("fetchUrlItem", "sendMessage", 0, "threw")
         ELSE /\ Len(urlItems) < MaxItems
              /\ urlItems' = Append(urlItems, newUrlItem(url, searchId, clientId))
              /\ error' = Null
              /\ written' = Envelope(WS_EVENTS.START_FETCH_A_GOOGLE_SCHOLAR_URL,
                                     [EmptyData EXCEPT !.url = Some(url),
                                                       !.search_id = Some(searchId),
                                                       !.client_id =
                                                          IF clientId = Null THEN None
                                                          ELSE Some(clientId)])
              /\ lastOp' = Op("fetchUrlItem", "sendMessage", socketRef, searchId)
  /\ delivered' = << >>
  /\ receivedId' = None
  /\ removed' = 0
  /\ capabilities' = capabilities
  /\ UNCHANGED <<endpointThrows, userDisconnected, isAuthenticated, ConnVars, eventListeners, pendingEffect>>

\* removeUrlItem(searchId)
RemoveUrlItem(searchId) ==
  /\ pendingEffect = "none"
  /\ urlItems' = removeUrlItem(urlItems, searchId)
  /\ lastOp' = Op("removeUrlItem", "none", 0, searchId)
  /\ delivered' = << >>
  /\ receivedId' = None
  /\ removed' = Len(urlItems) - Len(removeUrlItem(urlItems, searchId))
  /\ capabilities' = capabilities
  /\ written' = NoEnvelope
  /\ UNCHANGED <<endpointThrows, userDisconnected, isAuthenticated, ConnVars, eventListeners, error, pendingEffect>>

\* ------------------------------------------------------------ AddPaperModal
\* handleSubmit going on whenever the socket is connected, whether or not a
\* client id is known.
handleSubmitWhenConnected(connected, cid) == connected

\* handleSubmit goes on to fetchUrlItem unless !isConnected || !clientId
\* (the url is taken as non-empty and valid, and no submission is running).
handleSubmitGoesOn(connected, cid) == connected /\ cid # Null /\ cid # ""

\* The form of the modal is submitted: handleSubmit calls
\* fetchUrlItem(url, `search-${Date.now()}`) or returns before it.
HandleSubmit(url, searchId) ==
  /\ handleSubmitGoesOn(isConnected, clientId)
  /\ FetchUrlItem(url, searchId)

\* item[name] of JavaScript: undefined for a member the object lacks.
member(item, name) == IF name \in DOMAIN item THEN item[name] ELSE None

\* onClick of the button of row i: removeUrlItem(item.searchId), whose
\* filter keeps the items with item.search_id !== that argument.
onClickRemove(items, i) ==
  SelectSeq(items, LAMBDA item : item.search_id # member(items[i], "searchId"))

\* The user clicks the remove button of row i of the modal's list.
DismissUrlItem(i) ==
  /\ pendingEffect = "none"
  /\ i \in 1..Len(urlItems)
  /\ urlItems' = onClickRemove(urlItems, i)
  /\ lastOp' = Op("removeUrlItem", "none", 0, "row")
  /\ delivered' = << >>
  /\ receivedId' = urlItems[i].search_id
  /\ removed' = Len(urlItems) - Len(onClickRemove(urlItems, i))
  /\ capabilities' = capabilities
  /\ written' = NoEnvelope
  /\ UNCHANGED <<endpointThrows, userDisconnected, isAuthenticated, ConnVars, eventListeners, error, pendingEffect>>

\* The slot a new unsubscribe function takes: an empty one, or, when there
\* is none, that of a function the consumer called and dropped.
FreeCaps ==
  IF \E c \in CapIds : capabilities[c].state = "none"
    THEN {c \in CapIds : capabilities[c].state = "none"}
    ELSE {c \in CapIds : capabilities[c].state = "called"}

\* A consumer of the context subscribes a callback to an event and keeps
\* the function subscribeToEvent returns.
Subscribe(event, callback) ==
  /\ pendingEffect = "none"
  /\ FreeCaps # {}
  /\ eventListeners' = subscribeToEvent(eventListeners, event, callback)
  /\ capabilities' = [capabilities EXCEPT ![Min(FreeCaps)] =
                        [event |-> event, callback |-> callback, state |-> "live"]]
  /\ lastOp' = Op("subscribe", "none", 0, event)
  /\ delivered' = << >>
  /\ receivedId' = None
  /\ removed' = 0
  /\ written' = NoEnvelope
  /\ UNCHANGED <<endpointThrows, userDisconnected, isAuthenticated, ConnVars, urlItems, error, pendingEffect>>

\* The consumer calls a function a subscription returned, for the first
\* time or again.
Unsubscribe(c) ==
  /\ pendingEffect = "none"
  /\ capabilities[c].state # "none"
  /\ eventListeners' = unsubscribe(eventListeners, capabilities[c].event,
                                   capabilities[c].callback)
  /\ capabilities' = [capabilities EXCEPT ![c].state = "called"]
  /\ lastOp' = Op("unsubscribe", "none", 0, capabilities[c].event)
  /\ delivered' = << >>
  /\ receivedId' = None
  /\ removed' = 0
  /\ written' = NoEnvelope
  /\ UNCHANGED <<endpointThrows, userDisconnected, isAuthenticated, ConnVars, urlItems, error, pendingEffect>>

\* The state once the user has signed in and the effects of that commit
\* ran: UrlItemProvider subscribed its two callbacks and connect() created
\* the first socket.
InitSignedIn ==
  /\ endpointThrows = FALSE
  /\ isAuthenticated = TRUE
  /\ isConnected = FALSE
  /\ clientId = Null
  /\ sockets = [s \in SocketIds |->
                  IF s = 1 THEN [readyState |-> "CONNECTING", auth |-> TRUE,
                                 closeCode |-> 0, closeReason |-> ""]
                  ELSE NoSocket]
  /\ socketRef = 1
  /\ timers = [t \in TimerIds |-> NoTimer]
  /\ reconnectTimeoutRef = 0
  /\ eventListeners =
       [e \in InboundEvents |->
          IF e = WS_EVENTS.UPDATE_FETCH_A_GOOGLE_SCHOLAR_URL_PROCESS THEN <<UpdateCb>>
          ELSE IF e = WS_EVENTS.FETCHED_COMPLETED_WITH_PAPERS_INFO THEN <<CompletedCb>>
          ELSE << >>]
  /\ urlItems = << >>
  /\ error = Null
  /\ pendingEffect = "none"
  /\ userDisconnected = FALSE
  /\ lastOp = Op("effect", "connect", 0, "opened")
  /\ delivered = << >>
  /\ written = NoEnvelope
  /\ receivedId = None
  /\ removed = 0
  /\ capabilities = [c \in CapIds |-> NoCap]

\* The connection lifecycle: the authentication flag, the effects, the
\* reconnect timeouts and the events of the sockets.
Lifecycle ==
  \/ SetAuth
  \/ RunEffects
  \/ \E t \in TimerIds : TimerFire(t)
  \/ \E s \in SocketIds : SocketOpen(s)
  \/ \E s \in SocketIds : SocketFail(s)
  \/ \E s \in SocketIds : SocketRemoteClose(s)
  \/ \E s \in SocketIds : SocketCloseAck(s)
  \/ \E s \in SocketIds : SocketHandshake(s)

\* The event bus as its consumers drive it: the outside subscriber takes
\* the handshake event and one event UrlItemProvider subscribes to as well.
BusEvents ==
  {WS_EVENTS.CLIENT_CONNECTED, WS_EVENTS.UPDATE_FETCH_A_GOOGLE_SCHOLAR_URL_PROCESS}

\* What the outside consumer subscribes: ExternalCb to either event, the
\* other two callbacks to the update event.
BusSubscriptions ==
  {sub \in BusEvents \X ExternalCallbacks :
     sub[1] = WS_EVENTS.UPDATE_FETCH_A_GOOGLE_SCHOLAR_URL_PROCESS \/ sub[2] = ExternalCb}

Bus ==
  \/ \E sub \in BusSubscriptions : Subscribe(sub[1], sub[2])
  \/ \E c \in CapIds : Unsubscribe(c)

\* The job registry as the presentation layer and the remote side drive it.
Registry ==
  \/ \E url \in Urls, searchId \in JobIds : FetchUrlItem(url, searchId)
  \/ \E searchId \in JobIds : RemoveUrlItem(searchId)
  \/ \E s \in SocketIds : SocketJobEvent(s)

Next == Lifecycle

\* The connection manager alone.
Spec == Init /\ [][Next]_vars

\* The remote side sends the handshake frame to a client that has no id.
HandshakeDue(s) ==
  /\ clientId = Null
  /\ \E frame \in HandshakeFrames : IsHandshake(frame) /\ Receive(s, frame)

\* The connection manager where what is due happens: React runs the effects
\* of a render, a pending timeout fires, the remote side accepts a socket
\* that is connecting and sends its handshake.  Failures, closes and changes
\* of isAuthenticated may or may not happen.
SpecLive ==
  /\ Init
  /\ [][Next]_vars
  /\ WF_vars(RunEffects)
  /\ WF_vars(\E t \in TimerIds : TimerFire(t))
  /\ \A s \in SocketIds : WF_vars(SocketOpen(s))
  /\ \A s \in SocketIds : WF_vars(HandshakeDue(s))

\* The event bus of a signed-in user: the socket opens and delivers frames
\* while the outside consumer subscribes and unsubscribes.
NextBus ==
  \/ RunEffects
  \/ \E s \in SocketIds : SocketOpen(s)
  \/ \E s \in SocketIds : SocketHandshake(s)
  \/ \E s \in SocketIds : SocketJobEvent(s)
  \/ Bus
SpecBus == InitSignedIn /\ [][NextBus]_vars

\* The connection manager with the job registry on top of it.
NextJobs == Lifecycle \/ Registry
SpecJobs == Init /\ [][NextJobs]_vars

\* The job registry of a signed-in user under every payload of PatchFrames,
\* over a connection that fails and reconnects.
NextRegistry ==
  \/ RunEffects
  \/ \E t \in TimerIds : TimerFire(t)
  \/ \E s \in SocketIds : SocketOpen(s)
  \/ \E s \in SocketIds : SocketFail(s)
  \/ \E s \in SocketIds : SocketHandshake(s)
  \/ \E url \in Urls, searchId \in JobIds : FetchUrlItem(url, searchId)
  \/ \E searchId \in JobIds : RemoveUrlItem(searchId)
  \/ \E s \in SocketIds : SocketJobPatch(s)
SpecRegistry == InitSignedIn /\ [][NextRegistry]_vars

\* The receive loop of a signed-in user with jobs in the registry, under
\* frames that are unparseable or lack a member of the envelope.
NextFrames ==
  \/ RunEffects
  \/ \E s \in SocketIds : SocketOpen(s)
  \/ \E s \in SocketIds : SocketHandshake(s)
  \/ \E s \in SocketIds : SocketJobEvent(s)
  \/ \E s \in SocketIds : SocketIncomplete(s)
  \/ \E url \in Urls, searchId \in JobIds : FetchUrlItem(url, searchId)
SpecFrames == InitSignedIn /\ [][NextFrames]_vars

\* The modal over the registry of a signed-in user: jobs are submitted by
\* handleSubmit and dismissed by the remove buttons.
NextModal ==
  \/ RunEffects
  \/ \E t \in TimerIds : TimerFire(t)
  \/ \E s \in SocketIds : SocketOpen(s)
  \/ \E s \in SocketIds : SocketFail(s)
  \/ \E s \in SocketIds : SocketHandshake(s)
  \/ \E s \in SocketIds : SocketJobEvent(s)
  \/ \E url \in Urls, searchId \in JobIds : HandleSubmit(url, searchId)
  \/ \E i \in 1..MaxItems : DismissUrlItem(i)
SpecModal == InitSignedIn /\ [][NextModal]_vars

\* The job registry of a signed-in user whose socket delivers frames one by
\* one and in bursts.
NextOrder ==
  \/ RunEffects
  \/ \E s \in SocketIds : SocketOpen(s)
  \/ \E s \in SocketIds : SocketJobEvent(s)
  \/ \E s \in SocketIds : SocketBurst(s)
  \/ \E url \in Urls, searchId \in JobIds : FetchUrlItem(url, searchId)
SpecOrder == InitSignedIn /\ [][NextOrder]_vars


\* ------------------------------------------------- terms of the specification
\* The reconnect timeouts that are outstanding.
PendingTimers == {t \in TimerIds : timers[t].pending}

\* The transports that exist: sockets connecting or open.
LiveSockets == {s \in SocketIds : sockets[s].readyState \in {"CONNECTING", "OPEN"}}

\* ConnectionState of the specification, read off the provider's state.
ConnectionState ==
  IF isConnected THEN "Connected"
  ELSE IF socketRef # 0 /\ sockets[socketRef].readyState = "CONNECTING" THEN "Connecting"
  ELSE IF \E s \in SocketIds : sockets[s].readyState = "CLOSING" THEN "Closing"
  ELSE "Disconnected"

\* A step in which connect() is called: by the effect or by a timeout.
ConnectCalled ==
  /\ RunEffects \/ \E t \in TimerIds : TimerFire(t)
  /\ lastOp'.called = "connect"

\* A transport error, or a close the caller did not initiate, on socket s.
UnplannedClose(s) == SocketFail(s) \/ SocketRemoteClose(s)

\* ------------------------------------------------------------------ claims

\* C1: in every reachable state at most one reconnect timer is outstanding,
\* and a state reached by connect() opening a new connection has no
\* reconnect timer pending.
C1_OneReconnectTimer ==
  /\ Cardinality(PendingTimers) <= 1
  /\ (lastOp.called = "connect" /\ lastOp.result = "opened") => PendingTimers = {}

\* C2: a transport error or a close with a reason that is not the caller's,
\* while isAuthenticated is true, schedules exactly one reconnect: one new
\* timeout of the fixed delay, held by reconnectTimeoutRef, and no other
\* timeout is added or removed.
C2_UnplannedCloseSchedulesOneReconnect ==
  [][ \A s \in SocketIds :
        (isAuthenticated /\ UnplannedClose(s)) =>
          \E t \in TimerIds :
            /\ ~timers[t].pending
            /\ timers'[t].pending
            /\ timers'[t].delay = ReconnectDelay
            /\ reconnectTimeoutRef' = t
            /\ \A u \in TimerIds \ {t} : timers'[u] = timers[u] ]_vars

C2_Witness ==
  /\ lastOp.name \in {"close", "error"}
  /\ lastOp.result = "other"
  /\ isAuthenticated
  /\ reconnectTimeoutRef # 0
  /\ timers[reconnectTimeoutRef].pending

\* C3: after disconnect() and until connect() is called again, no reconnect
\* timer is scheduled and no new transport is opened.
C3_DisconnectSuppressesReconnect ==
  [][ (userDisconnected /\ userDisconnected') =>
        /\ \A t \in TimerIds : timers'[t].pending => timers[t].pending
        /\ \A s \in SocketIds :
             sockets'[s].readyState = "CONNECTING" => sockets[s].readyState = "CONNECTING" ]_vars

\* C4: connect() called in state Connected or Connecting opens no transport
\* and changes nothing.
C4_ConnectNoOpWhenConnectedOrConnecting ==
  [][ (ConnectCalled /\ ConnectionState \in {"Connected", "Connecting"}) =>
        /\ sockets' = sockets
        /\ socketRef' = socketRef
        /\ isConnected' = isConnected
        /\ clientId' = clientId
        /\ \A t \in TimerIds : timers'[t].pending => timers[t].pending ]_vars

\* C5: at any time at most one transport (a socket connecting or open) exists.
C5_AtMostOneTransport == Cardinality(LiveSockets) <= 1

\* C6: the session identity is set only by a handshake frame of the current
\* connection: the open event of a socket leaves the state Connected with
\* clientId absent, and clientId becomes present or changes only in a step
\* that receives a handshake frame carrying an identity on socketRef's socket.
C6_IdentityOnlyFromHandshake ==
  [][ /\ \A s \in SocketIds : SocketOpen(s) => (isConnected' /\ clientId' = Null)
      /\ (clientId' # Null /\ clientId' # clientId) =>
           \E frame \in HandshakeFrames :
             /\ socketRef # 0
             /\ Receive(socketRef, frame)
             /\ Truthy(frame.data.client_id) ]_vars

\* C7: after disconnect() returns the state is Disconnected, the session
\* identity is absent, no reconnect timer is pending, and no transport is
\* left: every socket still closing was closed with the caller's code and reason.
C7_DisconnectPostcondition ==
  lastOp.called = "disconnect" =>
    /\ ~isConnected
    /\ clientId = Null
    /\ PendingTimers = {}
    /\ socketRef = 0
    /\ LiveSockets = {}
    /\ \A s \in SocketIds :
         sockets[s].readyState = "CLOSING" =>
           sockets[s].closeCode = NormalClosure /\ sockets[s].closeReason = UserReason

\* C8: a frame of the handshake event that carries an identity sets clientId
\* to that identity and is delivered to no subscriber, whoever is subscribed
\* under the handshake event's name.
C8_HandshakeNotForwarded ==
  [][ \A s \in SocketIds : \A frame \in HandshakeFrames :
        (Receive(s, frame) /\ Truthy(frame.data.client_id)) =>
          /\ clientId' = frame.data.client_id[1]
          /\ delivered' = << >>
          /\ urlItems' = urlItems ]_vars

C8_Witness ==
  /\ lastOp.name = "message"
  /\ lastOp.result = "handshake"
  /\ eventListeners[WS_EVENTS.CLIENT_CONNECTED] # << >>
  /\ clientId \in ClientIds
  /\ delivered = << >>


\* The connection is ready for a job submission: state Connected and the
\* session identity present (what AddPaperModal's handleSubmit asks for).
Ready == isConnected /\ clientId # Null

\* A step in which fetchUrlItem calls sendMessage.
SendCalled ==
  /\ \E url \in Urls, searchId \in JobIds : FetchUrlItem(url, searchId)
  /\ lastOp'.called = "sendMessage"

\* C9: a send of the job-submission event while the state is not Connected
\* or the session identity is absent fails, and writes nothing to the transport.
C9_SendFailsWhenNotReady ==
  [][ (SendCalled /\ ~Ready) =>
        (lastOp'.result = "threw" /\ written' = NoEnvelope) ]_vars

\* C10: when the connection is ready, fetchUrlItem(url, searchId) leaves in
\* urlItems an item with that search_id, status collecting_info and progress 0.
C10_SubmitInsertsOptimisticJob ==
  [][ \A url \in Urls, searchId \in JobIds :
        (Ready /\ FetchUrlItem(url, searchId)) =>
          \E i \in 1..Len(urlItems') :
            /\ urlItems'[i].search_id = Some(searchId)
            /\ urlItems'[i].status = Some("collecting_info")
            /\ urlItems'[i].progress = Some(0) ]_vars

\* ----------------------------------------------------- the job registry
UpdateEvent == WS_EVENTS.UPDATE_FETCH_A_GOOGLE_SCHOLAR_URL_PROCESS
CompletedEvent == WS_EVENTS.FETCHED_COMPLETED_WITH_PAPERS_INFO
FailedEvent == WS_EVENTS.FAILED_FETCH_A_GOOGLE_SCHOLAR_URL
StopEvent == WS_EVENTS.STOP_FETCH_A_GOOGLE_SCHOLAR_URL

\* The fields of a job record.
Fields == DOMAIN EmptyData

\* The positions in urlItems of the jobs a payload is keyed to.
Matching(data) == {i \in 1..Len(urlItems) : urlItems[i].search_id = data.search_id}

\* The jobs of items other than searchId, in order.
JobsOtherThan(items, searchId) ==
  SelectSeq(items, LAMBDA item : item.search_id # Some(searchId))

\* C11: fetchUrlItem called while the connection is not ready (not connected,
\* or no client id) ends in a failure outcome, inserts no item and leaves
\* urlItems exactly as it was.
C11_SubmitNotReadyFails ==
  [][ \A url \in Urls, searchId \in JobIds :
        (~Ready /\ FetchUrlItem(url, searchId)) =>
          /\ lastOp'.result = "threw"
          /\ error' # Null
          /\ urlItems' = urlItems ]_vars

\* C12: a progress-update payload keyed to a job of urlItems is a partial
\* patch: every field the payload carries takes the payload's value, every
\* field it does not carry keeps the value it had, and no other job changes.
C12_UpdateIsPartialPatch ==
  [][ \A s \in SocketIds : \A frame \in PatchFrames :
        (Receive(s, frame) /\ frame.event = UpdateEvent) =>
          /\ Len(urlItems') = Len(urlItems)
          /\ \A i \in 1..Len(urlItems) :
               IF i \in Matching(frame.data)
                 THEN \A f \in Fields :
                        urlItems'[i][f] = IF frame.data[f] # None THEN frame.data[f]
                                          ELSE urlItems[i][f]
                 ELSE urlItems'[i] = urlItems[i] ]_vars

\* C13: a completed payload keyed to a job of urlItems leaves that job with
\* status completed, progress 100 and the papers of the payload, whatever
\* status and progress the payload carries or omits.
C13_CompletionSetsCompleted ==
  [][ \A s \in SocketIds : \A frame \in PatchFrames :
        (Receive(s, frame) /\ frame.event = CompletedEvent) =>
          /\ Len(urlItems') = Len(urlItems)
          /\ \A i \in Matching(frame.data) :
               /\ urlItems'[i].status = Some("completed")
               /\ urlItems'[i].progress = Some(100)
               /\ urlItems'[i].papers = frame.data.papers ]_vars

\* C14: a progress-update or completed payload whose search_id is that of no
\* job in urlItems changes nothing: urlItems is the same sequence, no entry
\* is added, the provider's error is not set and the socket that delivered
\* the frame goes on as before.
C14_UnknownJobIsNoOp ==
  [][ lastOp'.name = "message" =>
        \A frame \in PatchFrames :
          ( /\ frame.event \in {UpdateEvent, CompletedEvent}
            /\ Matching(frame.data) = {}
            /\ \E s \in SocketIds : Receive(s, frame) ) =>
            /\ urlItems' = urlItems
            /\ error' = error
            /\ sockets' = sockets
            /\ isConnected' = isConnected ]_vars

C14_Witness ==
  /\ lastOp.name = "message"
  /\ lastOp.result \in {UpdateEvent, CompletedEvent}
  /\ delivered # << >>
  /\ urlItems # << >>
  /\ receivedId \in {Some(j) : j \in JobIds}
  /\ \A i \in 1..Len(urlItems) : urlItems[i].search_id # receivedId

\* C15: a failed event keyed to a job of urlItems leaves that job with status
\* error and the error message of the payload.
C15_FailedEventSetsError ==
  [][ \A s \in SocketIds : \A frame \in PatchFrames :
        (Receive(s, frame) /\ frame.event = FailedEvent) =>
          /\ Len(urlItems') = Len(urlItems)
          /\ \A i \in Matching(frame.data) :
               /\ urlItems'[i].status = Some("error")
               /\ urlItems'[i].error_message = frame.data.error_message ]_vars

\* C16: removeUrlItem(X) leaves no job X in urlItems and the other jobs as
\* they were and in their order, sets no error, and does so in every state
\* of the connection, an open socket or none.
C16_RemoveAlwaysRemoves ==
  [][ \A searchId \in JobIds :
        RemoveUrlItem(searchId) =>
          /\ \A i \in 1..Len(urlItems') : urlItems'[i].search_id # Some(searchId)
          /\ urlItems' = JobsOtherThan(urlItems, searchId)
          /\ error' = error ]_vars

C16_Witness ==
  /\ lastOp.name = "removeUrlItem"
  /\ removed > 0
  /\ ~SocketIsOpen(CS)
  /\ ~isConnected
  /\ urlItems # << >>

\* C17: removeUrlItem(X) called while connected with a client id writes one
\* stop envelope carrying X and the client id.
C17_RemoveSendsStop ==
  [][ \A searchId \in JobIds :
        (Ready /\ RemoveUrlItem(searchId)) =>
          written' = Envelope(StopEvent,
                              [EmptyData EXCEPT !.search_id = Some(searchId),
                                                !.client_id = Some(clientId)]) ]_vars

\* C18: every job of urlItems with status completed has progress 100.
C18_CompletedHasFullProgress ==
  \A i \in 1..Len(urlItems) :
    urlItems[i].status = Some("completed") => urlItems[i].progress = Some(100)

\* C19: every job of urlItems with status error has an error message that
\* is present and not empty.
C19_ErrorHasMessage ==
  \A i \in 1..Len(urlItems) :
    urlItems[i].status = Some("error") => Truthy(urlItems[i].error_message)

\* C20: applying an inbound payload never lowers the progress recorded for
\* a job.
C20_ProgressNeverDecreases ==
  [][ \A s \in SocketIds : \A frame \in PatchFrames :
        Receive(s, frame) =>
          \A i \in 1..Len(urlItems) :
            (i <= Len(urlItems') /\ urlItems[i].progress # None
               /\ urlItems'[i].progress # None) =>
              urlItems'[i].progress[1] >= urlItems[i].progress[1] ]_vars

\* C21: no two jobs of the list share a search_id, whatever sequence of
\* fetchUrlItem, update, completion and removeUrlItem produced the list
\* (fetchUrlItem called twice with one search_id included).
C21_UniqueJobIds ==
  \A i, j \in 1..Len(urlItems) :
    i # j => urlItems[i].search_id # urlItems[j].search_id

Registered(ls, event, callback) ==
  \E i \in 1..Len(ls[event]) : ls[event][i] = callback

\* How many times x occurs in seq.
Times(seq, x) == Cardinality({k \in 1..Len(seq) : seq[k] = x})

\* callback has a registration under event that nobody unsubscribed: a
\* function the consumer holds and has not called, or for the two callbacks
\* of UrlItemProvider the subscription of its effect.
LiveRegistration(callback, event) ==
  IF callback \in ExternalCallbacks
    THEN \E c \in CapIds : /\ capabilities[c].state = "live"
                           /\ capabilities[c].event = event
                           /\ capabilities[c].callback = callback
    ELSE /\ isAuthenticated
         /\ event = (IF callback = UpdateCb THEN UpdateEvent ELSE CompletedEvent)

\* C23: calling the function a subscription returned removes that
\* registration only: every other registration not unsubscribed yet, a
\* second registration of the same callback under the same event included,
\* stays in the set of listeners of its event.
C23_UnsubscribeRemovesOnlyItsRegistration ==
  [][ lastOp'.name = "unsubscribe" =>
        \A c \in CapIds :
          (capabilities[c].state = "live" /\ Unsubscribe(c)) =>
            \A d \in CapIds \ {c} :
              capabilities[d].state = "live" =>
                Registered(eventListeners', capabilities[d].event,
                           capabilities[d].callback) ]_vars

\* C24: a frame of event E invokes only callbacks that hold a registration
\* under E whose unsubscribe function has not been called: none whose
\* unsubscribe returned, none registered only under another event.
C24_OnlyLiveRegistrationsInvoked ==
  [][ lastOp'.name = "message" =>
        \A k \in 1..Len(delivered') :
          LiveRegistration(delivered'[k], lastOp'.result) ]_vars

\* A frame of the update event arrived after the consumer unsubscribed
\* ExternalCb from it and while ExternalCb was registered under the
\* handshake event: the frame invoked other callbacks and not ExternalCb.
C24_Witness ==
  /\ lastOp.name = "message"
  /\ lastOp.result = UpdateEvent
  /\ delivered # << >>
  /\ Times(delivered, ExternalCb) = 0
  /\ \E c \in CapIds : capabilities[c] =
        [event |-> UpdateEvent, callback |-> ExternalCb, state |-> "called"]
  /\ Registered(eventListeners, WS_EVENTS.CLIENT_CONNECTED, ExternalCb)

\* C25: when a callback unsubscribes during the dispatch of a frame of its
\* own event, every callback registered for the event when the dispatch
\* began is invoked exactly once.
C25_UnsubscribeDuringDispatchSkipsNone ==
  [][ ( /\ lastOp'.name = "message"
        /\ lastOp'.result \in InboundEvents
        /\ Registered(eventListeners, lastOp'.result, StopperCb) ) =>
        \A i \in 1..Len(eventListeners[lastOp'.result]) :
          Times(delivered', eventListeners[lastOp'.result][i]) = 1 ]_vars

\* C26: a well-formed frame that is not the handshake invokes the callbacks
\* registered for its event when it arrives, each once and in registration
\* order, whatever the socket, the client id and the event.
C26_FrameInvokesRegisteredInOrder ==
  [][ lastOp'.name = "message" =>
        \A frame \in HandshakeFrames \cup JobFrames :
          (~IsHandshake(frame) /\ \E s \in SocketIds : Receive(s, frame)) =>
            delivered' = eventListeners[frame.event] ]_vars

\* C27: when a callback registered for the event of a frame throws, it was
\* invoked, every callback registered for the event and not unsubscribed
\* during the dispatch is invoked once, and the socket and the connection
\* state are as before the frame.
C27_ThrowingCallbackIsIsolated ==
  [][ ( /\ lastOp'.name = "message"
        /\ lastOp'.result \in InboundEvents
        /\ Registered(eventListeners, lastOp'.result, ThrowingCb) ) =>
        /\ Times(delivered', ThrowingCb) = 1
        /\ \A i \in 1..Len(eventListeners[lastOp'.result]) :
             Registered(eventListeners', lastOp'.result,
                        eventListeners[lastOp'.result][i]) =>
               Times(delivered', eventListeners[lastOp'.result][i]) = 1
        /\ sockets' = sockets
        /\ isConnected' = isConnected ]_vars

\* A frame invoked ThrowingCb and then a callback registered after it.
C27_Witness ==
  /\ lastOp.name = "message"
  /\ \E k \in 1..Len(delivered) : delivered[k] = ThrowingCb /\ k < Len(delivered)

\* C28: calling an unsubscribe function that was called before changes no
\* set of listeners.
C28_UnsubscribeAgainIsNoOp ==
  [][ lastOp'.name = "unsubscribe" =>
        \A c \in CapIds :
          (capabilities[c].state = "called" /\ Unsubscribe(c)) =>
            eventListeners' = eventListeners ]_vars

\* C29: a frame that does not parse, or that parses and lacks its event or
\* its data, is discarded: urlItems, the listeners, clientId, the connection
\* state and the sockets are as before it, and nothing it queued throws, so
\* the frames after it are handled.
C29_MalformedFrameHasNoEffect ==
  [][ lastOp'.name = "message" =>
        \A frame \in MalformedFrames \cup IncompleteFrames :
          (\E s \in SocketIds : Receive(s, frame)) =>
            /\ urlItems' = urlItems
            /\ eventListeners' = eventListeners
            /\ clientId' = clientId
            /\ isConnected' = isConnected
            /\ sockets' = sockets
            /\ pendingEffect' = "none" ]_vars

\* C30: when isAuthenticated went from true to false and the effects of
\* that render ran, urlItems is empty, no socket is connecting or open, the
\* sockets that were are closed with the user's code and reason, clientId
\* is null, no reconnect timer is pending, and the listeners the outside
\* consumer registered are as before.
C30_SignOutTearsDown ==
  [][ ( /\ pendingEffect = "auth"
        /\ ~isAuthenticated
        /\ lastOp'.name = "effect"
        /\ RunEffects ) =>
        /\ urlItems' = << >>
        /\ LiveSockets' = {}
        /\ \A s \in LiveSockets :
             /\ sockets'[s].closeCode = NormalClosure
             /\ sockets'[s].closeReason = UserReason
        /\ clientId' = Null
        /\ ~isConnected'
        /\ PendingTimers' = {}
        /\ \A e \in InboundEvents :
             SelectSeq(eventListeners'[e], LAMBDA c : c \in ExternalCallbacks)
               = SelectSeq(eventListeners[e], LAMBDA c : c \in ExternalCallbacks) ]_vars

\* ------------------------------------------- the registry and the connection
\* The search_ids of the jobs of a list.
JobIdsOf(items) == {items[i].search_id : i \in 1..Len(items)}

\* C31: an error event, a close event, an open event, a reconnect timeout
\* and the effect of a signed-in user leave urlItems as it was, and a job
\* leaves urlItems only in a removeUrlItem step or in the effect that follows
\* isAuthenticated becoming false.
C31_LifecycleKeepsJobs ==
  [][ /\ lastOp'.name \in {"open", "error", "close", "timer"} =>
           urlItems' = urlItems
      /\ (lastOp'.name = "effect" /\ isAuthenticated) => urlItems' = urlItems
      /\ ~(JobIdsOf(urlItems) \subseteq JobIdsOf(urlItems')) =>
           \/ lastOp'.name = "removeUrlItem"
           \/ lastOp'.name = "effect" /\ ~isAuthenticated ]_vars

\* A reconnect timeout ran connect() for a socket that failed while the list
\* held a job, and the job is still listed.
C31_Witness ==
  /\ lastOp.name = "timer"
  /\ lastOp.called = "connect"
  /\ urlItems # << >>

\* The callback of UrlItemProvider that applies a frame is registered for it.
AppliedBy(frame) ==
  \/ frame.event = UpdateEvent /\ Registered(eventListeners, UpdateEvent, UpdateCb)
  \/ frame.event = CompletedEvent /\ Registered(eventListeners, CompletedEvent, CompletedCb)

\* The last position of a burst whose frame is applied to item, 0 for none.
LastApplied(frames, item) ==
  LET K == {k \in 1..Len(frames) :
              frames[k].data.search_id = item.search_id /\ AppliedBy(frames[k])}
  IN IF K = {} THEN 0 ELSE CHOOSE k \in K : \A l \in K : l <= k

\* C32: after a socket delivered a run of update and completion frames,
\* urlItems is the list before them with the frames applied in the order of
\* arrival: every job carries the payload of the last frame that arrived
\* for it and a job no frame named is as before; a single frame leaves
\* every job it names with its payload.
C32_FramesAppliedInArrivalOrder ==
  [][ /\ lastOp'.name = "messages" =>
           \A frames \in Bursts :
             ( /\ frames[Len(frames)].event = lastOp'.result
               /\ frames[Len(frames)].data.search_id = receivedId'
               /\ \E s \in SocketIds : ReceiveBurst(s, frames) ) =>
               /\ Len(urlItems') = Len(urlItems)
               /\ \A i \in 1..Len(urlItems) :
                    urlItems'[i] =
                      IF LastApplied(frames, urlItems[i]) = 0 THEN urlItems[i]
                      ELSE frames[LastApplied(frames, urlItems[i])].data
      /\ lastOp'.name = "message" =>
           \A frame \in JobFrames :
             (\E s \in SocketIds : Receive(s, frame)) =>
               /\ Len(urlItems') = Len(urlItems)
               /\ \A i \in 1..Len(urlItems) :
                    urlItems'[i] =
                      IF LastApplied(<<frame>>, urlItems[i]) = 0 THEN urlItems[i]
                      ELSE frame.data ]_vars

\* A burst brought a completion and then an update for the first job: the
\* job carries the update's payload.
C32_Witness ==
  /\ lastOp.name = "messages"
  /\ lastOp.result = UpdateEvent
  /\ delivered = <<CompletedCb, UpdateCb>>
  /\ urlItems # << >>
  /\ urlItems[1].search_id = receivedId
  /\ urlItems[1].status = Some("searching_papers")

C39_DismissRemovesThatJob ==
  [][ lastOp'.name = "removeUrlItem" =>
        \A i \in 1..Len(urlItems) :
          DismissUrlItem(i) =>
            urlItems' = JobsOtherThan(urlItems, urlItems[i].search_id[1]) ]_vars

\* A socket fails or the remote side closes it.
TransportFailure ==
  \/ \E s \in SocketIds : SocketFail(s)
  \/ \E s \in SocketIds : SocketRemoteClose(s)

\* C34: when new WebSocket(endpoint) does not throw, isAuthenticated stays
\* true from some point on and from some point on no socket fails or is
\* closed by the remote side, the provider ends up reporting connected with
\* a client id and stays so: it is never not ready for ever.
C34_EventuallyConnected ==
  (~endpointThrows /\ <>[]isAuthenticated /\ <>[][~TransportFailure]_vars)
    => <>[]Ready

\* C35: isConnected is true exactly when socketRef.current is a socket whose
\* open event was delivered and that is still open, whatever events of
\* other sockets arrived.
C35_FlagAgreesWithCurrentSocket ==
  isConnected <=> SocketIsOpen(CS)

\* C36: a client id the provider holds was set by the handshake frame of
\* the socket socketRef.current refers to: a handshake sets clientId only
\* when it arrives on that socket, and a step that makes another socket the
\* current one leaves clientId null.
C36_IdentityOfCurrentSocket ==
  [][ /\ (lastOp'.name = "message" /\ lastOp'.result = "handshake") =>
           lastOp'.sock = socketRef
      /\ (socketRef' # socketRef /\ socketRef' # 0) => clientId' = Null
      /\ (clientId' # clientId /\ clientId' # Null) =>
           (lastOp'.name = "message" /\ lastOp'.result = "handshake") ]_vars

\* C37: while isAuthenticated is false before and after a step, the step
\* schedules no reconnect timeout and creates no socket, also when a socket
\* created while isAuthenticated was true fails or closes in that step.
C37_NoReconnectWhileSignedOut ==
  [][ (~isAuthenticated /\ ~isAuthenticated') =>
        /\ \A t \in TimerIds : timers'[t].pending => timers[t].pending
        /\ \A s \in SocketIds :
             sockets'[s].readyState = "CONNECTING" =>
               sockets[s].readyState = "CONNECTING" ]_vars

\* C38: the listeners outlive the sockets: an open, error or close event, a
\* reconnect timeout and the effect of a signed-in user leave eventListeners
\* as it was with no callback listed twice, and a frame arriving on any open
\* socket invokes each callback registered for its event once.
C38_SubscriptionsSurviveReconnect ==
  [][ /\ ( \/ lastOp'.name \in {"open", "error", "close", "timer"}
           \/ lastOp'.name = "effect" /\ isAuthenticated ) =>
           eventListeners' = eventListeners
      /\ \A e \in InboundEvents : \A i \in 1..Len(eventListeners'[e]) :
           Times(eventListeners'[e], eventListeners'[e][i]) = 1
      /\ (lastOp'.name = "message" /\ lastOp'.result \in InboundEvents) =>
           \A i \in 1..Len(eventListeners[lastOp'.result]) :
             Registered(eventListeners', lastOp'.result,
                        eventListeners[lastOp'.result][i]) =>
               Times(delivered', eventListeners[lastOp'.result][i]) = 1 ]_vars

\* After a socket failed and a timeout reconnected, a frame arriving on the
\* new socket before its handshake invoked the callback subscribed at sign-in.
C38_Witness ==
  /\ lastOp.name = "message"
  /\ delivered = <<UpdateCb>>
  /\ reconnectTimeoutRef # 0
  /\ PendingTimers = {}
  /\ clientId = Null
  /\ SocketIsOpen(CS)
  /\ lastOp.sock = socketRef

====
